---- MODULE Spec2Model ----
(***************************************************************************)
(* The notification rule engine of packages/core/src/notifications/rules.ts *)
(* (isValidVersion, RuleEngine.evaluate, RuleEngine.evaluateRule).          *)
(*                                                                         *)
(* One call of RuleEngine.shouldDisplayNotification is modelled as a walk  *)
(* through the statements of evaluate(): the extension id test, the two    *)
(* version gates, the loop over additionalCriteria and the final return.   *)
(* The context held by the engine, the running extension's id and the      *)
(* notification payload are the inputs, fixed in the initial state.        *)
(***************************************************************************)
EXTENDS Integers, Sequences, FiniteSets, TLC

VARIABLES
    currentExt,   \* globals.context.extension.id
    context,      \* RuleEngine.context (the RuleContext given to the constructor)
    payload,      \* the ToolkitNotification passed to shouldDisplayNotification
    pc,           \* the statement of evaluate() about to run
    index,        \* position of the for-of loop over additionalCriteria (1-based)
    result,       \* how the call ended: still running, returned a boolean, threw
    evaluated     \* the gate steps executed so far, each with its outcome

vars == <<currentExt, context, payload, pc, index, result, evaluated>>

----------------------------------------------------------------------------
(* Bounds of the model.                                                    *)

MaxVer == 1        \* major, minor and patch range over 0..MaxVer
MaxLen == 2        \* longest 'values' list and longest context list
MaxClauses == 2    \* longest 'clauses' list of an 'or' clause
MaxDepth == 2      \* deepest nesting of 'or' clauses
MaxCriteria == 2   \* longest additionalCriteria list

----------------------------------------------------------------------------
(* Outcomes of a call: a returned boolean or a thrown Error.               *)

Running == [status |-> "running", value |-> FALSE, error |-> ""]
Return(b) == [status |-> "returned", value |-> b, error |-> ""]
Throw(msg) == [status |-> "thrown", value |-> FALSE, error |-> msg]

Has(obj, field) == field \in DOMAIN obj

ToSet(seq) == {seq[k] : k \in 1..Len(seq)}

SeqsUpTo(S, n) == UNION {[1..k -> S] : k \in 0..n}

----------------------------------------------------------------------------
(* Version strings.  A version string is modelled by the fields the semver *)
(* package parses it into: the three numeric components, the prerelease    *)
(* identifiers and the build metadata (which no comparison reads).  Only   *)
(* strings that semver parses are modelled: every version of a context, a  *)
(* range bound or a 'values' list is a valid semantic version.             *)

SemVer(ma, mi, pa, pre, b) ==
    [major |-> ma, minor |-> mi, patch |-> pa, prerelease |-> pre, build |-> b]

compareIdentifiers(a, b) == IF a = b THEN 0 ELSE IF a < b THEN -1 ELSE 1

compareMain(a, b) ==
    IF compareIdentifiers(a.major, b.major) # 0
        THEN compareIdentifiers(a.major, b.major)
    ELSE IF compareIdentifiers(a.minor, b.minor) # 0
        THEN compareIdentifiers(a.minor, b.minor)
    ELSE compareIdentifiers(a.patch, b.patch)

RECURSIVE comparePreFrom(_, _, _)
comparePreFrom(a, b, i) ==
    IF i > Len(a) /\ i > Len(b) THEN 0
    ELSE IF i > Len(b) THEN 1
    ELSE IF i > Len(a) THEN -1
    ELSE IF a[i] = b[i] THEN comparePreFrom(a, b, i + 1)
    ELSE compareIdentifiers(a[i], b[i])

comparePre(a, b) ==
    IF Len(a.prerelease) > 0 /\ Len(b.prerelease) = 0 THEN -1
    ELSE IF Len(a.prerelease) = 0 /\ Len(b.prerelease) > 0 THEN 1
    ELSE IF Len(a.prerelease) = 0 /\ Len(b.prerelease) = 0 THEN 0
    ELSE comparePreFrom(a.prerelease, b.prerelease, 1)

semverCompare(a, b) ==
    IF compareMain(a, b) # 0 THEN compareMain(a, b) ELSE comparePre(a, b)

semverGte(a, b) == semverCompare(a, b) >= 0
semverLt(a, b) == semverCompare(a, b) < 0
semverEq(a, b) == semverCompare(a, b) = 0

----------------------------------------------------------------------------
(* isValidVersion(version, condition)                                      *)

RECURSIVE isValidVersion(_, _)
RECURSIVE someClause(_, _, _)

\* rangeMatches with an exclusive lower bound (semver.gt for semver.gte).
rangeMatches_ExclusiveLower(version, condition) ==
    LET lowerConstraint == ~Has(condition, "lowerInclusive")
                           \/ semverCompare(version, condition.lowerInclusive) > 0
        upperConstraint == ~Has(condition, "upperExclusive")
                           \/ semverLt(version, condition.upperExclusive)
    IN  lowerConstraint /\ upperConstraint

rangeMatches(version, condition) ==
    LET lowerConstraint == ~Has(condition, "lowerInclusive")
                           \/ semverGte(version, condition.lowerInclusive)
        upperConstraint == ~Has(condition, "upperExclusive")
                           \/ semverLt(version, condition.upperExclusive)
    IN  lowerConstraint /\ upperConstraint

exactMatches(version, condition) ==
    \E k \in 1..Len(condition.values) : semverEq(condition.values[k], version)

\* someClause as clauses.every(...): all sub-clauses must match.
someClause_Every(version, clauses, i) ==
    IF i > Len(clauses) THEN Return(TRUE)
    ELSE LET r == isValidVersion(version, clauses[i])
         IN  IF r.status = "thrown" THEN r
             ELSE IF ~r.value THEN Return(FALSE)
             ELSE someClause(version, clauses, i + 1)

\* condition.clauses.some(...): left to right, stopping at the first clause
\* that matches; an Error thrown by a clause it reaches ends the iteration.
someClause(version, clauses, i) ==
    IF i > Len(clauses) THEN Return(FALSE)
    ELSE LET r == isValidVersion(version, clauses[i])
         IN  IF r.status = "thrown" THEN r
             ELSE IF r.value THEN Return(TRUE)
             ELSE someClause(version, clauses, i + 1)

\* isValidVersion without the 'exactMatch' case.
isValidVersion_NoExactMatch(version, condition) ==
    CASE condition.type = "range" -> Return(rangeMatches(version, condition))
      [] condition.type = "or" -> someClause(version, condition.clauses, 1)
      [] OTHER -> Throw("Unknown clause type: " \o condition.type)

\* isValidVersion treating an unknown tag as a clause that never matches.
isValidVersion_SilentFalse(version, condition) ==
    CASE condition.type = "range" -> Return(rangeMatches(version, condition))
      [] condition.type = "exactMatch" -> Return(exactMatches(version, condition))
      [] condition.type = "or" -> someClause(version, condition.clauses, 1)
      [] OTHER -> Return(FALSE)

isValidVersion(version, condition) ==
    CASE condition.type = "range" -> Return(rangeMatches(version, condition))
      [] condition.type = "exactMatch" -> Return(exactMatches(version, condition))
      [] condition.type = "or" -> someClause(version, condition.clauses, 1)
      [] OTHER -> Throw("Unknown clause type: " \o condition.type)

----------------------------------------------------------------------------
(* RuleEngine.evaluateRule(criteria)                                       *)

isExpected(expected, i) == i \in ToSet(expected)

\* hasAnyOfExpected as i.every(...).
hasAnyOfExpected_Every(expected, i) == \A k \in 1..Len(i) : i[k] \in ToSet(expected)

hasAnyOfExpected(expected, i) == \E k \in 1..Len(i) : i[k] \in ToSet(expected)

\* isSuperSetOfExpected as expected.some(...).
isSuperSetOfExpected_Some(expected, i) ==
    \E k \in 1..Len(expected) : expected[k] \in ToSet(i)

isSuperSetOfExpected(expected, i) ==
    \A k \in 1..Len(expected) : expected[k] \in ToSet(i)

\* isEqualSetToExpected without the second direction.
isEqualSetToExpected_OneWay(expected, i) ==
    \A k \in 1..Len(expected) : expected[k] \in ToSet(i)

isEqualSetToExpected(expected, i) ==
    /\ \A k \in 1..Len(expected) : expected[k] \in ToSet(i)
    /\ \A k \in 1..Len(i) : i[k] \in ToSet(expected)

\* evaluateRule treating an unknown type as a criterion that never passes.
evaluateRule_SilentFalse(ctx, criteria) ==
    LET expected == criteria.values
    IN  CASE criteria.type = "OS" -> Return(isExpected(expected, ctx.os))
          [] criteria.type = "ComputeEnv" -> Return(isExpected(expected, ctx.computeEnv))
          [] criteria.type = "AuthType" -> Return(hasAnyOfExpected(expected, ctx.authTypes))
          [] criteria.type = "AuthRegion" -> Return(hasAnyOfExpected(expected, ctx.authRegions))
          [] criteria.type = "AuthState" -> Return(hasAnyOfExpected(expected, ctx.authStates))
          [] criteria.type = "AuthScopes" -> Return(isEqualSetToExpected(expected, ctx.authScopes))
          [] criteria.type = "InstalledExtensions" ->
                Return(isSuperSetOfExpected(expected, ctx.installedExtensions))
          [] criteria.type = "ActiveExtensions" ->
                Return(isSuperSetOfExpected(expected, ctx.activeExtensions))
          [] OTHER -> Return(FALSE)

evaluateRule(ctx, criteria) ==
    LET expected == criteria.values
    IN  CASE criteria.type = "OS" -> Return(isExpected(expected, ctx.os))
          [] criteria.type = "ComputeEnv" -> Return(isExpected(expected, ctx.computeEnv))
          [] criteria.type = "AuthType" -> Return(hasAnyOfExpected(expected, ctx.authTypes))
          [] criteria.type = "AuthRegion" -> Return(hasAnyOfExpected(expected, ctx.authRegions))
          [] criteria.type = "AuthState" -> Return(hasAnyOfExpected(expected, ctx.authStates))
          [] criteria.type = "AuthScopes" -> Return(isEqualSetToExpected(expected, ctx.authScopes))
          [] criteria.type = "InstalledExtensions" ->
                Return(isSuperSetOfExpected(expected, ctx.installedExtensions))
          [] criteria.type = "ActiveExtensions" ->
                Return(isSuperSetOfExpected(expected, ctx.activeExtensions))
          [] OTHER -> Throw("Unknown criteria type: " \o criteria.type)

----------------------------------------------------------------------------
(* RuleEngine.evaluate(condition), one action per statement.               *)

displayIf == payload.displayIf

Step(name, i, outcome) == [step |-> name, index |-> i, outcome |-> outcome]

\* CheckExtensionId without the early return.
CheckExtensionId_NoReturn ==
    /\ pc = "extensionId"
    /\ evaluated' = Append(evaluated,
            Step("extensionId", 0, Return(displayIf.extensionId = currentExt)))
    /\ result' = result
    /\ pc' = "ideVersion"
    /\ UNCHANGED <<currentExt, context, payload, index>>

\* if (condition.extensionId !== currentExt) { return false }
CheckExtensionId ==
    /\ pc = "extensionId"
    /\ evaluated' = Append(evaluated,
            Step("extensionId", 0, Return(displayIf.extensionId = currentExt)))
    /\ IF displayIf.extensionId # currentExt
          THEN result' = Return(FALSE) /\ pc' = "done"
          ELSE result' = result /\ pc' = "ideVersion"
    /\ UNCHANGED <<currentExt, context, payload, index>>

\* One version gate: the clause `field` of the condition against `version`;
\* `next` is the statement that follows the gate.
VersionGate(field, version, next) ==
    IF Has(displayIf, field)
        THEN LET r == isValidVersion(version, displayIf[field])
             IN  /\ evaluated' = Append(evaluated, Step(field, 0, r))
                 /\ IF r.status = "thrown" THEN result' = r /\ pc' = "done"
                    ELSE IF ~r.value THEN result' = Return(FALSE) /\ pc' = "done"
                    ELSE result' = result /\ pc' = next
        ELSE /\ evaluated' = evaluated
             /\ result' = result
             /\ pc' = next

\* if (condition.ideVersion) { if (!isValidVersion(...)) { return false } }
CheckIdeVersion ==
    /\ pc = "ideVersion"
    /\ VersionGate("ideVersion", context.ideVersion, "extensionVersion")
    /\ UNCHANGED <<currentExt, context, payload, index>>

\* CheckExtensionVersion reading the wrong field of the context.
CheckExtensionVersion_IdeVersion ==
    /\ pc = "extensionVersion"
    /\ VersionGate("extensionVersion", context.ideVersion, "additionalCriteria")
    /\ UNCHANGED <<currentExt, context, payload, index>>

\* if (condition.extensionVersion) { if (!isValidVersion(...)) { return false } }
CheckExtensionVersion ==
    /\ pc = "extensionVersion"
    /\ VersionGate("extensionVersion", context.extensionVersion, "additionalCriteria")
    /\ UNCHANGED <<currentExt, context, payload, index>>

\* EvaluateCriteria going on to the next criterion after one that fails
\* (the failure is remembered, the loop is not left).
EvaluateCriteria_NoReturn ==
    /\ pc = "additionalCriteria"
    /\ Has(displayIf, "additionalCriteria")
    /\ index <= Len(displayIf.additionalCriteria)
    /\ LET r == evaluateRule(context, displayIf.additionalCriteria[index])
       IN  /\ evaluated' = Append(evaluated, Step("additionalCriteria", index, r))
           /\ IF r.status = "thrown" THEN result' = r /\ pc' = "done"
              ELSE IF ~r.value /\ index = Len(displayIf.additionalCriteria)
                   THEN result' = Return(FALSE) /\ pc' = "done"
              ELSE result' = result /\ pc' = pc
    /\ index' = index + 1
    /\ UNCHANGED <<currentExt, context, payload>>

\* One iteration of: for (const criteria of condition.additionalCriteria)
EvaluateCriteria ==
    /\ pc = "additionalCriteria"
    /\ Has(displayIf, "additionalCriteria")
    /\ index <= Len(displayIf.additionalCriteria)
    /\ LET r == evaluateRule(context, displayIf.additionalCriteria[index])
       IN  /\ evaluated' = Append(evaluated, Step("additionalCriteria", index, r))
           /\ IF r.status = "thrown" THEN result' = r /\ pc' = "done"
              ELSE IF ~r.value THEN result' = Return(FALSE) /\ pc' = "done"
              ELSE result' = result /\ pc' = pc
    /\ index' = index + 1
    /\ UNCHANGED <<currentExt, context, payload>>

\* return true, once the criteria are absent or the loop has run off the list
ReturnTrue ==
    /\ pc = "additionalCriteria"
    /\ IF Has(displayIf, "additionalCriteria")
          THEN index > Len(displayIf.additionalCriteria)
          ELSE TRUE
    /\ result' = Return(TRUE)
    /\ pc' = "done"
    /\ UNCHANGED <<currentExt, context, payload, index, evaluated>>

----------------------------------------------------------------------------
(* The inputs of a call.  Each family below varies one part of the input   *)
(* widely and keeps the rest at a base value.                              *)

ExtToolkit == "amazonwebservices.aws-toolkit-vscode"
ExtAmazonQ == "amazonwebservices.amazon-q-vscode"
ExtensionIds == {ExtToolkit, ExtAmazonQ}

Values == {"x", "y"}
Lists == SeqsUpTo(Values, MaxLen)

PreReleases == {<<>>, <<0>>, <<0, 1>>}
Versions ==
    {SemVer(ma, mi, pa, pre, "") :
        ma \in 0..MaxVer, mi \in 0..MaxVer, pa \in 0..MaxVer, pre \in PreReleases}

V010 == SemVer(0, 1, 0, <<>>, "")
V100 == SemVer(1, 0, 0, <<>>, "")
V100Pre == SemVer(1, 0, 0, <<0>>, "")
V100Build == SemVer(1, 0, 0, <<>>, "build")
SomeVersions == {V010, V100, V100Pre, V100Build}

UnknownClause == [type |-> "and"]
UnknownCriteria == [type |-> "Bogus", values |-> <<"x">>]

CriteriaTypes ==
    {"OS", "ComputeEnv", "AuthType", "AuthRegion", "AuthState", "AuthScopes",
     "InstalledExtensions", "ActiveExtensions"}

RangeClauses(VS) ==
    {[type |-> "range"]}
    \cup {[type |-> "range", lowerInclusive |-> l] : l \in VS}
    \cup {[type |-> "range", upperExclusive |-> u] : u \in VS}
    \cup {[type |-> "range", lowerInclusive |-> l, upperExclusive |-> u] :
            l \in VS, u \in VS}

ExactMatchClauses(VS) ==
    {[type |-> "exactMatch", values |-> vs] : vs \in SeqsUpTo(VS, MaxLen)}

\* Three clauses that are not 'or': on version 0.1.0 the first rejects and
\* the second matches, on version 1.0.0 the other way round; the third has
\* a tag the matcher does not know.
LeafClauses ==
    {[type |-> "range", lowerInclusive |-> V100],
     [type |-> "exactMatch", values |-> <<V010>>],
     UnknownClause}

InsertAt(seq, p, e) == SubSeq(seq, 1, p - 1) \o <<e>> \o SubSeq(seq, p, Len(seq))

\* 'or' clauses nested at most d deep: a list of leaf clauses with at most
\* one nested 'or' clause among them, at any position.
RECURSIVE OrClauses(_)
OrClauses(d) ==
    IF d = 0 THEN {}
    ELSE {[type |-> "or", clauses |-> cs] : cs \in SeqsUpTo(LeafClauses, MaxClauses)}
         \cup {[type |-> "or", clauses |-> InsertAt(cs, p, c)] :
                <<cs, p, c>> \in
                    {t \in SeqsUpTo(LeafClauses, MaxClauses - 1)
                            \X (1..MaxClauses) \X OrClauses(d - 1) :
                        t[2] <= Len(t[1]) + 1}}

BaseContext ==
    [ideVersion |-> V100, extensionVersion |-> V100,
     os |-> "x", computeEnv |-> "y",
     authTypes |-> <<"x">>, authRegions |-> <<>>, authStates |-> <<"y">>,
     authScopes |-> <<>>,
     installedExtensions |-> <<"x", "y">>, activeExtensions |-> <<"y">>]

ListFields ==
    {"authTypes", "authRegions", "authStates", "authScopes",
     "installedExtensions", "activeExtensions"}

Optional(field, S) == {<<>>} \cup {field :> v : v \in S}

DisplayIfs(ids, ideClauses, extClauses, criteriaLists) ==
    {("extensionId" :> e) @@ i @@ x @@ c :
        e \in ids,
        i \in Optional("ideVersion", ideClauses),
        x \in Optional("extensionVersion", extClauses),
        c \in Optional("additionalCriteria", criteriaLists)}

\* The state in which evaluate() is entered with the given inputs.
Start(ext, ctx, d) ==
    /\ currentExt = ext
    /\ context = ctx
    /\ payload = [displayIf |-> d]
    /\ pc = "extensionId"
    /\ index = 1
    /\ result = Running
    /\ evaluated = <<>>

\* every version against every range clause
RangeInputs ==
    \E v \in Versions, c \in RangeClauses(Versions) :
        Start(ExtToolkit, [BaseContext EXCEPT !.ideVersion = v],
              [extensionId |-> ExtToolkit, ideVersion |-> c])

\* versions that differ in prerelease and build against exactMatch lists
ExactMatchInputs ==
    \E v \in SomeVersions, c \in ExactMatchClauses(SomeVersions) :
        Start(ExtToolkit, [BaseContext EXCEPT !.extensionVersion = v],
              [extensionId |-> ExtToolkit, extensionVersion |-> c])

\* nested 'or' clauses, with and without a clause of unknown tag
OrInputs ==
    \E v \in {V010, V100}, c \in OrClauses(MaxDepth) \cup LeafClauses :
        Start(ExtToolkit, [BaseContext EXCEPT !.ideVersion = v],
              [extensionId |-> ExtToolkit, ideVersion |-> c])

\* one criterion of every type against contexts that differ from the base
\* context in one field
CriteriaContexts ==
    {[BaseContext EXCEPT ![f] = l] : f \in ListFields, l \in Lists}
    \cup {[BaseContext EXCEPT !.os = o, !.computeEnv = c] : o \in Values, c \in Values}

CriteriaInputs ==
    \E ctx \in CriteriaContexts, t \in CriteriaTypes \cup {"Bogus"}, l \in Lists :
        Start(ExtToolkit, ctx,
              [extensionId |-> ExtToolkit,
               additionalCriteria |-> <<[type |-> t, values |-> l]>>])

\* the whole gate: every combination of a present or absent, passing,
\* failing or malformed part
GateClauses == LeafClauses
GateCriteria ==
    {[type |-> "OS", values |-> <<"x">>],
     [type |-> "AuthScopes", values |-> <<>>],
     UnknownCriteria}
GateContexts ==
    {[BaseContext EXCEPT !.ideVersion = i, !.extensionVersion = x,
                         !.os = o, !.authScopes = s] :
        i \in {V010, V100}, x \in {V010, V100}, o \in Values, s \in {<<>>, <<"x">>}}

GateInputs ==
    \E ext \in ExtensionIds, ctx \in GateContexts,
       d \in DisplayIfs(ExtensionIds, GateClauses, GateClauses,
                        SeqsUpTo(GateCriteria, MaxCriteria)) :
        Start(ext, ctx, d)

Init ==
    \/ RangeInputs
    \/ ExactMatchInputs
    \/ OrInputs
    \/ CriteriaInputs
    \/ GateInputs

Next ==
    \/ CheckExtensionId
    \/ CheckIdeVersion
    \/ CheckExtensionVersion
    \/ EvaluateCriteria
    \/ ReturnTrue

Spec == Init /\ [][Next]_vars

----------------------------------------------------------------------------
(* What the data model says a condition means, stated without the order of *)
(* evaluation: used to state the properties below.                         *)

ClauseTags == {"range", "exactMatch", "or"}

RECURSIVE WellFormedClause(_)
WellFormedClause(c) ==
    /\ c.type \in ClauseTags
    /\ c.type = "or" => \A k \in 1..Len(c.clauses) : WellFormedClause(c.clauses[k])

WellFormedDisplayIf(d) ==
    /\ Has(d, "ideVersion") => WellFormedClause(d.ideVersion)
    /\ Has(d, "extensionVersion") => WellFormedClause(d.extensionVersion)
    /\ Has(d, "additionalCriteria") =>
            \A k \in 1..Len(d.additionalCriteria) :
                d.additionalCriteria[k].type \in CriteriaTypes

\* Semantic-version precedence as a number.  The prerelease lists of the
\* model are prefixes of one another, so a longer list has the higher
\* precedence, and a version without prerelease the highest.
PreRank(pre) == IF pre = <<>> THEN 3 ELSE Len(pre)
Rank(v) ==
    ((v.major * (MaxVer + 1) + v.minor) * (MaxVer + 1) + v.patch) * 4
        + PreRank(v.prerelease)

\* A well-formed clause matches a version.
RECURSIVE Matches(_, _)
Matches(v, c) ==
    CASE c.type = "range" ->
            /\ Has(c, "lowerInclusive") => Rank(v) >= Rank(c.lowerInclusive)
            /\ Has(c, "upperExclusive") => Rank(v) < Rank(c.upperExclusive)
      [] c.type = "exactMatch" ->
            \E k \in 1..Len(c.values) : Rank(c.values[k]) = Rank(v)
      [] c.type = "or" -> \E k \in 1..Len(c.clauses) : Matches(v, c.clauses[k])

\* A criterion of a known type is satisfied by a context.
Satisfies(ctx, cr) ==
    LET expected == ToSet(cr.values)
    IN  CASE cr.type = "OS" -> ctx.os \in expected
          [] cr.type = "ComputeEnv" -> ctx.computeEnv \in expected
          [] cr.type = "AuthType" -> ToSet(ctx.authTypes) \cap expected # {}
          [] cr.type = "AuthRegion" -> ToSet(ctx.authRegions) \cap expected # {}
          [] cr.type = "AuthState" -> ToSet(ctx.authStates) \cap expected # {}
          [] cr.type = "AuthScopes" -> ToSet(ctx.authScopes) = expected
          [] cr.type = "InstalledExtensions" -> expected \subseteq ToSet(ctx.installedExtensions)
          [] cr.type = "ActiveExtensions" -> expected \subseteq ToSet(ctx.activeExtensions)

\* Clauses that may hold nodes of unknown tag, read left to right: Raises
\* when a node of unknown tag is inspected, Accepts when the clause matches
\* without one being inspected.  Inside an 'or', a sub-clause is inspected
\* only if every sub-clause before it neither raised nor matched.
RECURSIVE Raises(_, _)
RECURSIVE Accepts(_, _)
Raises(v, c) ==
    CASE c.type = "or" ->
            \E k \in 1..Len(c.clauses) :
                /\ Raises(v, c.clauses[k])
                /\ \A j \in 1..(k - 1) :
                        ~Raises(v, c.clauses[j]) /\ ~Accepts(v, c.clauses[j])
      [] c.type \in {"range", "exactMatch"} -> FALSE
      [] OTHER -> TRUE
Accepts(v, c) ==
    CASE c.type = "or" ->
            \E k \in 1..Len(c.clauses) :
                /\ Accepts(v, c.clauses[k])
                /\ \A j \in 1..(k - 1) : ~Raises(v, c.clauses[j])
      [] c.type \in {"range", "exactMatch"} -> Matches(v, c)
      [] OTHER -> FALSE

RECURSIVE ContainsUnknownTag(_)
ContainsUnknownTag(c) ==
    \/ c.type \notin ClauseTags
    \/ /\ c.type = "or"
       /\ \E k \in 1..Len(c.clauses) : ContainsUnknownTag(c.clauses[k])

\* The executed statements that called isValidVersion, with the arguments
\* of the call: the step is named after the field of the condition, and
\* the context holds the version to test under the same name.
VersionSteps ==
    {k \in 1..Len(evaluated) : evaluated[k].step \in {"ideVersion", "extensionVersion"}}
ClauseOf(k) == displayIf[evaluated[k].step]
VersionOf(k) == context[evaluated[k].step]

\* The executed statements that called evaluateRule, with the criterion.
CriteriaSteps == {k \in 1..Len(evaluated) : evaluated[k].step = "additionalCriteria"}
CriterionOf(k) == displayIf.additionalCriteria[evaluated[k].index]

UnknownClauseError == Throw("Unknown clause type: and")
UnknownCriteriaError == Throw("Unknown criteria type: Bogus")

----------------------------------------------------------------------------
(* C1: for a well-formed DisplayIf, shouldDisplayNotification returns true *)
(* iff the extension id equals the running extension's id, ideVersion is   *)
(* absent or matches context.ideVersion, extensionVersion is absent or     *)
(* matches context.extensionVersion, and additionalCriteria is absent,     *)
(* empty or all its criteria pass; otherwise it returns false.             *)

GateSatisfied ==
    /\ displayIf.extensionId = currentExt
    /\ Has(displayIf, "ideVersion") =>
            Matches(context.ideVersion, displayIf.ideVersion)
    /\ Has(displayIf, "extensionVersion") =>
            Matches(context.extensionVersion, displayIf.extensionVersion)
    /\ Has(displayIf, "additionalCriteria") =>
            \A k \in 1..Len(displayIf.additionalCriteria) :
                Satisfies(context, displayIf.additionalCriteria[k])

C1_GateDecision ==
    (pc = "done" /\ WellFormedDisplayIf(displayIf)) => result = Return(GateSatisfied)

C1_Witness ==
    /\ pc = "done"
    /\ WellFormedDisplayIf(displayIf)
    /\ Has(displayIf, "ideVersion")
    /\ Has(displayIf, "extensionVersion")
    /\ Has(displayIf, "additionalCriteria")
    /\ Len(displayIf.additionalCriteria) = 2
    /\ context.ideVersion # context.extensionVersion
    /\ result = Return(TRUE)

----------------------------------------------------------------------------
(* C2: when displayIf.extensionId differs from the running extension's id, *)
(* the call returns false and evaluates nothing but the id comparison,     *)
(* whatever ideVersion, extensionVersion and additionalCriteria hold       *)
(* (clauses of unknown tag and criteria of unknown type included); no      *)
(* error is raised.                                                        *)

C2_MismatchShortCircuits ==
    displayIf.extensionId # currentExt =>
        /\ \A k \in 1..Len(evaluated) : evaluated[k].step = "extensionId"
        /\ result.status # "thrown"
        /\ pc = "done" => result = Return(FALSE)
        /\ pc \in {"extensionId", "done"}

C2_Witness ==
    /\ pc = "done"
    /\ displayIf.extensionId # currentExt
    /\ Has(displayIf, "ideVersion") /\ displayIf.ideVersion = UnknownClause
    /\ Has(displayIf, "extensionVersion") /\ displayIf.extensionVersion = UnknownClause
    /\ Has(displayIf, "additionalCriteria")
    /\ Len(displayIf.additionalCriteria) > 0
    /\ displayIf.additionalCriteria[1] = UnknownCriteria
    /\ result = Return(FALSE)

----------------------------------------------------------------------------
(* C3, as stated: whenever the extension id matches and additionalCriteria *)
(* holds a criterion of unknown type at any position, the call raises      *)
(* 'Unknown criteria type', whatever the other fields and criteria hold.   *)

HasUnknownCriteria ==
    /\ Has(displayIf, "additionalCriteria")
    /\ \E k \in 1..Len(displayIf.additionalCriteria) :
            displayIf.additionalCriteria[k].type \notin CriteriaTypes

FirstUnknownCriteria ==
    CHOOSE k \in 1..Len(displayIf.additionalCriteria) :
        /\ displayIf.additionalCriteria[k].type \notin CriteriaTypes
        /\ \A j \in 1..(k - 1) : displayIf.additionalCriteria[j].type \in CriteriaTypes

C3_Original ==
    (pc = "done" /\ displayIf.extensionId = currentExt /\ HasUnknownCriteria)
        => result = UnknownCriteriaError

(* C3, amended: when the extension id matches and additionalCriteria holds *)
(* a criterion of unknown type, the call raises 'Unknown criteria type'    *)
(* exactly when ideVersion and extensionVersion are each absent or         *)
(* accepted by the version matcher and every criterion listed before the   *)
(* first one of unknown type passes; otherwise the call ends before that   *)
(* criterion is reached, with false or with 'Unknown clause type'.         *)

UnknownCriteriaReached ==
    /\ Has(displayIf, "ideVersion") =>
            Accepts(context.ideVersion, displayIf.ideVersion)
    /\ Has(displayIf, "extensionVersion") =>
            Accepts(context.extensionVersion, displayIf.extensionVersion)
    /\ \A j \in 1..(FirstUnknownCriteria - 1) :
            Satisfies(context, displayIf.additionalCriteria[j])

C3_UnknownCriteriaRaises ==
    (pc = "done" /\ displayIf.extensionId = currentExt /\ HasUnknownCriteria)
        => /\ (result = UnknownCriteriaError) <=> UnknownCriteriaReached
           /\ ~UnknownCriteriaReached =>
                    result = Return(FALSE) \/ result = UnknownClauseError

C3_Witness ==
    /\ pc = "done"
    /\ displayIf.extensionId = currentExt
    /\ HasUnknownCriteria
    /\ FirstUnknownCriteria = 2
    /\ Has(displayIf, "ideVersion")
    /\ Has(displayIf, "extensionVersion")
    /\ result = UnknownCriteriaError

----------------------------------------------------------------------------
(* C4, as stated: isValidVersion raises 'Unknown clause type' on every     *)
(* clause tree that holds a node of unknown tag, at the top level or       *)
(* nested at any depth and position inside 'or' clauses.                   *)

C4_Original ==
    \A k \in VersionSteps :
        ContainsUnknownTag(ClauseOf(k)) => evaluated[k].outcome = UnknownClauseError

(* C4, amended: isValidVersion raises 'Unknown clause type' exactly when    *)
(* its left-to-right evaluation inspects a node of unknown tag: the top     *)
(* node has an unknown tag, or the clause is an 'or' in which a sub-clause  *)
(* raises and every sub-clause before it evaluated to false.  A node of     *)
(* unknown tag listed after a matching sub-clause is not inspected and the  *)
(* 'or' returns true.                                                       *)

C4_UnknownTagRaises ==
    \A k \in VersionSteps :
        /\ Raises(VersionOf(k), ClauseOf(k)) <=> evaluated[k].outcome = UnknownClauseError
        /\ ~Raises(VersionOf(k), ClauseOf(k)) =>
                evaluated[k].outcome = Return(Accepts(VersionOf(k), ClauseOf(k)))

C4_Witness ==
    \E k \in VersionSteps :
        /\ ClauseOf(k).type = "or"
        /\ Len(ClauseOf(k).clauses) = 2
        /\ ClauseOf(k).clauses[1].type # "or"
        /\ ClauseOf(k).clauses[2].type = "or"
        /\ Len(ClauseOf(k).clauses[2].clauses) = 2
        /\ ClauseOf(k).clauses[2].clauses[2] = UnknownClause
        /\ evaluated[k].outcome = UnknownClauseError

----------------------------------------------------------------------------
(* C5: on a 'range' clause isValidVersion returns (lowerInclusive absent   *)
(* or v >= lowerInclusive) and (upperExclusive absent or v <               *)
(* upperExclusive) in semantic-version order: a lower bound alone matches  *)
(* iff v >= L, an upper bound alone iff v < U, no bound matches all.       *)

C5_RangeBounds ==
    \A k \in VersionSteps :
        ClauseOf(k).type = "range" =>
            LET v == VersionOf(k)
                c == ClauseOf(k)
                lowerOk == ~Has(c, "lowerInclusive") \/ Rank(v) >= Rank(c.lowerInclusive)
                upperOk == ~Has(c, "upperExclusive") \/ Rank(v) < Rank(c.upperExclusive)
            IN  evaluated[k].outcome = Return(lowerOk /\ upperOk)

\* a prerelease of the lower bound's version is below the bound
C5_Witness ==
    \E k \in VersionSteps :
        /\ ClauseOf(k).type = "range"
        /\ Has(ClauseOf(k), "lowerInclusive")
        /\ ~Has(ClauseOf(k), "upperExclusive")
        /\ ClauseOf(k).lowerInclusive.prerelease = <<>>
        /\ VersionOf(k) = [ClauseOf(k).lowerInclusive EXCEPT !.prerelease = <<0, 1>>]
        /\ evaluated[k].outcome = Return(FALSE)

----------------------------------------------------------------------------
(* C6: on or(cs) with well-formed cs, isValidVersion is true iff it is     *)
(* true for at least one element of cs; or([]) is false for every version  *)
(* and or([c]) gives what c alone gives.                                   *)

C6_OrIsAny ==
    \A k \in VersionSteps :
        (ClauseOf(k).type = "or" /\ WellFormedClause(ClauseOf(k))) =>
            LET v == VersionOf(k)
                cs == ClauseOf(k).clauses
            IN  /\ evaluated[k].outcome =
                        Return(\E j \in 1..Len(cs) : isValidVersion(v, cs[j]) = Return(TRUE))
                /\ Len(cs) = 0 => evaluated[k].outcome = Return(FALSE)
                /\ Len(cs) = 1 => evaluated[k].outcome = isValidVersion(v, cs[1])

\* a nested 'or' that matches through its second sub-clause only
C6_Witness ==
    \E k \in VersionSteps :
        /\ ClauseOf(k).type = "or"
        /\ WellFormedClause(ClauseOf(k))
        /\ Len(ClauseOf(k).clauses) = 2
        /\ ClauseOf(k).clauses[2].type = "or"
        /\ isValidVersion(VersionOf(k), ClauseOf(k).clauses[1]) = Return(FALSE)
        /\ evaluated[k].outcome = Return(TRUE)

----------------------------------------------------------------------------
(* C7: an 'AuthScopes' criterion passes iff the set of context.authScopes  *)
(* equals the set of the expected values, whatever the order and the       *)
(* duplicates of the two lists; two empty lists pass.                      *)

C7_AuthScopesSetEquality ==
    \A k \in CriteriaSteps :
        CriterionOf(k).type = "AuthScopes" =>
            evaluated[k].outcome =
                Return(ToSet(context.authScopes) = ToSet(CriterionOf(k).values))

\* equal sets listed in different orders
C7_Witness ==
    \E k \in CriteriaSteps :
        /\ CriterionOf(k).type = "AuthScopes"
        /\ Len(context.authScopes) = 2
        /\ context.authScopes[1] # context.authScopes[2]
        /\ CriterionOf(k).values = <<context.authScopes[2], context.authScopes[1]>>
        /\ evaluated[k].outcome = Return(TRUE)

----------------------------------------------------------------------------
(* C8: an 'InstalledExtensions' (resp. 'ActiveExtensions') criterion       *)
(* passes iff every expected id occurs in context.installedExtensions      *)
(* (resp. context.activeExtensions); an empty expected list passes.        *)

C8_ExtensionsSuperset ==
    \A k \in CriteriaSteps :
        /\ CriterionOf(k).type = "InstalledExtensions" =>
                evaluated[k].outcome =
                    Return(ToSet(CriterionOf(k).values)
                            \subseteq ToSet(context.installedExtensions))
        /\ CriterionOf(k).type = "ActiveExtensions" =>
                evaluated[k].outcome =
                    Return(ToSet(CriterionOf(k).values)
                            \subseteq ToSet(context.activeExtensions))

\* an id that is installed but not active: the two criteria disagree
C8_Witness ==
    \E k \in CriteriaSteps :
        /\ CriterionOf(k).type = "ActiveExtensions"
        /\ Len(CriterionOf(k).values) = 2
        /\ ToSet(CriterionOf(k).values) \subseteq ToSet(context.installedExtensions)
        /\ ~(ToSet(CriterionOf(k).values) \subseteq ToSet(context.activeExtensions))
        /\ evaluated[k].outcome = Return(FALSE)

----------------------------------------------------------------------------
(* C9: an 'AuthType', 'AuthRegion' or 'AuthState' criterion passes iff at  *)
(* least one value of context.authTypes, authRegions or authStates is      *)
(* among the expected values; with an empty expected list or an empty      *)
(* context list it is false, and no error is raised.                       *)

IntersectionField(type) ==
    CASE type = "AuthType" -> "authTypes"
      [] type = "AuthRegion" -> "authRegions"
      [] type = "AuthState" -> "authStates"

C9_AuthIntersection ==
    \A k \in CriteriaSteps :
        CriterionOf(k).type \in {"AuthType", "AuthRegion", "AuthState"} =>
            LET have == ToSet(context[IntersectionField(CriterionOf(k).type)])
                expected == ToSet(CriterionOf(k).values)
            IN  /\ evaluated[k].outcome = Return(have \cap expected # {})
                /\ (have = {} \/ expected = {}) => evaluated[k].outcome = Return(FALSE)

\* no active region: false whatever is expected
C9_Witness ==
    \E k \in CriteriaSteps :
        /\ CriterionOf(k).type = "AuthRegion"
        /\ context.authRegions = <<>>
        /\ Len(CriterionOf(k).values) = 2
        /\ evaluated[k].outcome = Return(FALSE)

----------------------------------------------------------------------------
(* C10: on a DisplayIf whose clause tags and criteria types are all known, *)
(* the call never raises and ends with a boolean: no statement it executes *)
(* throws, it is never stuck before its return, and it returns true or     *)
(* false; absent fields, empty lists and range clauses without bounds      *)
(* included.                                                               *)

C10_WellFormedReturnsBoolean ==
    WellFormedDisplayIf(displayIf) =>
        /\ result.status # "thrown"
        /\ \A k \in 1..Len(evaluated) : evaluated[k].outcome.status = "returned"
        /\ pc = "done" <=> result.status = "returned"
        /\ pc # "done" => ENABLED Next
        /\ Len(evaluated) <= 3 + MaxCriteria

\* an empty 'or' under ideVersion: the call returns false
C10_Witness ==
    /\ pc = "done"
    /\ Has(displayIf, "ideVersion")
    /\ displayIf.ideVersion = [type |-> "or", clauses |-> <<>>]
    /\ result = Return(FALSE)

----------------------------------------------------------------------------
(* C11: the gate runs its steps in the order extensionId, ideVersion,      *)
(* extensionVersion, then additionalCriteria in list order, skipping none  *)
(* that the condition holds, and stops at the first step that fails: the   *)
(* failing step is the last one executed, nothing after it is evaluated    *)
(* and the result is false whatever the parts not evaluated hold.          *)

StepRank(s) ==
    CASE s.step = "extensionId" -> 1
      [] s.step = "ideVersion" -> 2
      [] s.step = "extensionVersion" -> 3
      [] s.step = "additionalCriteria" -> 3 + s.index

\* the ranks of the steps the condition holds
GateRanks ==
    {1}
    \cup (IF Has(displayIf, "ideVersion") THEN {2} ELSE {})
    \cup (IF Has(displayIf, "extensionVersion") THEN {3} ELSE {})
    \cup (IF Has(displayIf, "additionalCriteria")
            THEN {3 + i : i \in 1..Len(displayIf.additionalCriteria)}
            ELSE {})

C11_OrderAndShortCircuit ==
    /\ \A k \in 1..Len(evaluated) :
        \* in order, and no step of the condition before this one was skipped
        /\ StepRank(evaluated[k]) \in GateRanks
        /\ {r \in GateRanks : r < StepRank(evaluated[k])}
                = {StepRank(evaluated[j]) : j \in 1..(k - 1)}
        /\ \A j \in 1..(k - 1) : StepRank(evaluated[j]) < StepRank(evaluated[k])
        \* every step before this one passed
        /\ \A j \in 1..(k - 1) : evaluated[j].outcome = Return(TRUE)
        \* a failing step ends the call with false
        /\ evaluated[k].outcome = Return(FALSE) =>
                /\ k = Len(evaluated)
                /\ pc = "done"
                /\ result = Return(FALSE)
    /\ pc = "done" => ~ENABLED Next

\* the first criterion fails after both version gates passed; the second
\* criterion, of unknown type, is not evaluated
C11_Witness ==
    /\ pc = "done"
    /\ Has(displayIf, "ideVersion")
    /\ Has(displayIf, "extensionVersion")
    /\ Has(displayIf, "additionalCriteria")
    /\ Len(displayIf.additionalCriteria) = 2
    /\ displayIf.additionalCriteria[2] = UnknownCriteria
    /\ Len(evaluated) = 4
    /\ evaluated[4] = Step("additionalCriteria", 1, Return(FALSE))
    /\ result = Return(FALSE)

====
